---- MODULE Spec2Model ----
(***************************************************************************)
(* Daily Spending Planner (src/src/pages/home.tsx).                        *)
(*                                                                         *)
(* The planner keeps one PlannerState (total amount, start/end date,       *)
(* expenses, savings goals) and derives from it, on every render, the      *)
(* memoised `totalSavings` and the ledger `calculations`.                  *)
(*                                                                         *)
(* Numbers.  A JavaScript number is a binary floating-point value: every   *)
(* arithmetic result is rounded to the nearest representable value, ties   *)
(* to even.  The model keeps that behaviour with a reduced format: a       *)
(* number is an integer count of units of 2^-FracBits (the spacing of the  *)
(* smallest values, as for subnormals) with at most PrecBits significant   *)
(* bits.  Infinities are outside the bounded inputs.                       *)
(*                                                                         *)
(* Dates.  A date text is a tuple <<year, month, day>> (the "yyyy-MM-dd"   *)
(* form), the empty tuple is the empty string.  A Date object is the       *)
(* number of its local calendar day within the year, or InvalidDate.    *)
(*                                                                         *)
(* Store and clipboard.  The state is read once from localStorage when the *)
(* component is constructed and written back by the effect of every commit *)
(* that changed it.  The Copy button hands the text of the ledger to the   *)
(* clipboard; the write settles later, as done or as failed.               *)
(*                                                                         *)
(* Memo and clock.  The ledger is recomputed when a dependency of its memo *)
(* has changed; the day of the clock is not one of them.                   *)
(*                                                                         *)
(* Earlier variants.  The month-based planner (src/unnamed/part_000) and   *)
(* the range-only planner (src/unnamed/part_001) are modelled by their     *)
(* construction and their calculation.                                     *)
(***************************************************************************)
EXTENDS Integers, Sequences, FiniteSets, TLC

VARIABLES
    state,           \* the PlannerState of the component
    calculations,    \* the memoised ledger
    today,           \* the calendar day of the clock
    stored,          \* what localStorage holds under STORAGE_KEY
    persistPending,  \* the persistence effect of the last commit has not run yet
    copied,          \* the `copied` flag of the component
    toasted,         \* the title of the last notification, "" before the first
    inFlight,        \* the texts of the clipboard writes that have not settled
    clipboard,       \* the text on the system clipboard
    timers           \* the number of pending timers that reset `copied`

vars ==
    <<state, calculations, today, stored, persistPending, copied, toasted, inFlight,
      clipboard, timers>>

----------------------------------------------------------------------------
(* Bounds of the model *)

PrecBits == 12
FracBits == 4
NumDays == 3
MaxGoals == 2
MaxCopies == 2

----------------------------------------------------------------------------
(* Floating-point arithmetic of JavaScript numbers *)

RECURSIVE Pow2(_)
Pow2(n) == IF n = 0 THEN 1 ELSE 2 * Pow2(n - 1)

Unit == Pow2(FracBits)

\* The value NaN: a number outside every value the bounded inputs produce.
NaN == 0 - Pow2(PrecBits + FracBits + 8)

\* p / d (p >= 0, d > 0) rounded to the nearest integer, ties to even.
RoundHalfEven(p, d) ==
    LET f == p \div d
        r == p % d
    IN  IF 2 * r < d THEN f
        ELSE IF 2 * r > d THEN f + 1
        ELSE f + (f % 2)

\* The first value that needs more than PrecBits significant bits.
MantissaEnd == Pow2(PrecBits)

\* p / q units (p >= 0, q > 0) rounded to a multiple of s units, s the smallest power
\* of two for which the multiple has at most PrecBits significant bits.
RECURSIVE RoundPos(_, _, _)
RoundPos(p, q, s) ==
    IF p \div (q * s) < MantissaEnd
    THEN RoundHalfEven(p, q * s) * s
    ELSE RoundPos(p, q, 2 * s)

\* The representable number nearest to p / q units (q > 0).
Round(p, q) == IF p < 0 THEN 0 - RoundPos(0 - p, q, 1) ELSE RoundPos(p, q, 1)

FAdd(a, b) == IF a = NaN \/ b = NaN THEN NaN ELSE Round(a + b, 1)
FSub(a, b) == IF a = NaN \/ b = NaN THEN NaN ELSE Round(a - b, 1)
FMul(a, b) == IF a = NaN \/ b = NaN THEN NaN ELSE Round(a * b, Unit)
FDiv(a, b) ==
    IF a = NaN \/ b = NaN \/ b = 0 THEN NaN
    ELSE IF b < 0 THEN Round((0 - a) * Unit, 0 - b)
    ELSE Round(a * Unit, b)

\* The number with the integer value n.
Num(n) == Round(n * Unit, 1)

MathMax(a, b) == IF a = NaN \/ b = NaN THEN NaN ELSE IF a >= b THEN a ELSE b
MathMin(a, b) == IF a = NaN \/ b = NaN THEN NaN ELSE IF a <= b THEN a ELSE b

\* x || 0 : NaN and 0 are falsy.
OrZero(x) == IF x = NaN THEN 0 ELSE x

\* The decimal literal that parseFloat reads at the start of a text, as
\* <<numerator, denominator>>.
DecimalPrefix ==
    [s \in {"0", "0.05", "0.1", "80", "100", "200", "300", "600", "1000", "1100", "1200",
            "3100", "-20", "-50", "-100", "12abc"} |->
        CASE s = "0" -> <<0, 1>>
          [] s = "0.05" -> <<5, 100>>
          [] s = "0.1" -> <<1, 10>>
          [] s = "80" -> <<80, 1>>
          [] s = "100" -> <<100, 1>>
          [] s = "200" -> <<200, 1>>
          [] s = "300" -> <<300, 1>>
          [] s = "600" -> <<600, 1>>
          [] s = "1000" -> <<1000, 1>>
          [] s = "1100" -> <<1100, 1>>
          [] s = "1200" -> <<1200, 1>>
          [] s = "3100" -> <<3100, 1>>
          [] s = "-20" -> <<0 - 20, 1>>
          [] s = "-50" -> <<0 - 50, 1>>
          [] s = "-100" -> <<0 - 100, 1>>
          [] s = "12abc" -> <<12, 1>>]

\* Texts that start with no decimal literal.
NonNumericTexts == {"", "abc"}

\* parseFloat: the value of the leading decimal literal, NaN when there is none.
parseFloat(s) ==
    CASE s \in DOMAIN DecimalPrefix ->
             Round(DecimalPrefix[s][1] * Unit, DecimalPrefix[s][2])
      [] s \in NonNumericTexts -> NaN

----------------------------------------------------------------------------
(* Calendar dates (date-fns) *)

\* Days of each month of the year 2024.
DaysInMonth == <<31, 29, 31, 30, 31, 30, 31, 31, 30, 31, 30, 31>>

RECURSIVE DaysUpTo(_)
DaysUpTo(m) == IF m = 0 THEN 0 ELSE DaysUpTo(m - 1) + DaysInMonth[m]

\* The number of days of the year before month m.
DaysBeforeMonth == [m \in 1..12 |-> DaysUpTo(m - 1)]

DaysBefore(m) == DaysBeforeMonth[m]

\* An Invalid Date (its time value is NaN).
InvalidDate == 0

\* parseISO: the Date of a "yyyy-MM-dd" text, an Invalid Date for any other text
\* and for a day that the calendar does not have.
parseISO(text) ==
    IF /\ Len(text) = 3
       /\ text[1] = 2024
       /\ text[2] \in 1..12
       /\ text[3] >= 1
       /\ text[3] <= DaysInMonth[text[2]]
    THEN DaysBefore(text[2]) + text[3]
    ELSE InvalidDate

isValid(date) == date # InvalidDate

RECURSIVE MonthOf(_, _)
MonthOf(date, m) == IF date <= DaysBefore(m) + DaysInMonth[m] THEN m ELSE MonthOf(date, m + 1)

\* format(date, "yyyy-MM-dd")
formatISO(date) ==
    LET m == MonthOf(date, 1) IN <<2024, m, date - DaysBefore(m)>>

\* differenceInDays(later, earlier): the number of full days between two local midnights.
differenceInDays(later, earlier) == later - earlier

\* eachDayOfInterval({start, end}) throws a RangeError unless both dates are valid and the
\* start is not after the end.
IntervalThrows(start, end) == ~isValid(start) \/ ~isValid(end) \/ start > end

\* eachDayOfInterval({start, end}): the days from start to end, both included.
eachDayOfInterval(start, end) == [i \in 1..(end - start + 1) |-> start + i - 1]

startOfMonth(date) == DaysBefore(MonthOf(date, 1)) + 1
endOfMonth(date) == DaysBefore(MonthOf(date, 1)) + DaysInMonth[MonthOf(date, 1)]

\* getDefaultDates(): the first and the last day of the current month.
getDefaultDates(now) ==
    [startDate |-> formatISO(startOfMonth(now)), endDate |-> formatISO(endOfMonth(now))]

----------------------------------------------------------------------------
(* The derived values of a render *)

\* parseFloat(goal.amount); a goal loaded without an amount has the amount undefined.
GoalAmount(goal) == IF "amount" \in DOMAIN goal THEN parseFloat(goal.amount) ELSE NaN

\* totalSavings: the goals' amounts added up from the left, an unparseable amount counting 0.
RECURSIVE SumGoals(_, _)
SumGoals(goals, n) ==
    IF n = 0 THEN 0
    ELSE FAdd(SumGoals(goals, n - 1), OrZero(GoalAmount(goals[n])))

totalSavings(st) == SumGoals(st.savingsGoals, Len(st.savingsGoals))

\* Variant of available: the difference is not clamped.
availableUnclamped(st) == FSub(OrZero(parseFloat(st.totalAmount)), totalSavings(st))

\* The sum of the entries of the keys, each read as parseFloat(...) || 0.
RECURSIVE SumOfEntries(_, _)
SumOfEntries(expenses, keys) ==
    IF keys = {} THEN 0
    ELSE LET k == CHOOSE key \in keys : TRUE
         IN  FAdd(SumOfEntries(expenses, keys \ {k}), OrZero(parseFloat(expenses[k])))

\* Variant of available: the entered expenses are taken off as well.
availableLessLogged(st) ==
    MathMax(0, FSub(FSub(OrZero(parseFloat(st.totalAmount)), totalSavings(st)),
                    SumOfEntries(st.expenses, DOMAIN st.expenses)))

available(st) == MathMax(0, FSub(OrZero(parseFloat(st.totalAmount)), totalSavings(st)))

hasInput(st, dateKey) == dateKey \in DOMAIN st.expenses /\ st.expenses[dateKey] # ""

\* Variants of CarryoverInto: the carryover is forgotten; a deficit is not carried.
CarryoverDropped(before, n) == 0
CarryoverSurplusOnly(before, n) ==
    IF n = 1 THEN 0 ELSE MathMax(0, before[n - 1].remaining)

\* Variant of CarryoverInto: the carryover is not reset between two evaluations, the first
\* day receives what the last day of the previous ledger left.
CarryoverKept(before, n) ==
    IF n > 1 THEN before[n - 1].remaining
    ELSE IF "isValidRange" \in DOMAIN calculations /\ calculations.isValidRange
         THEN calculations.days[Len(calculations.days)].remaining
         ELSE 0

\* The amount carried into day n: nothing into the first day, the remaining of day n - 1
\* into every later one.
CarryoverInto(before, n) == IF n = 1 THEN 0 ELSE before[n - 1].remaining

\* Variant of SpentOf: a day without an entry counts as nothing spent.
SpentDefaultsToZero(st, dateKey, availableForDay) ==
    IF hasInput(st, dateKey) THEN OrZero(parseFloat(st.expenses[dateKey])) ELSE 0

\* The spent of a day: its entry when it has one, all that is available otherwise.
SpentOf(st, dateKey, availableForDay) ==
    IF hasInput(st, dateKey)
    THEN OrZero(parseFloat(st.expenses[dateKey]))
    ELSE availableForDay

\* The day entries of the first n days of daysArray.
RECURSIVE DayEntries(_, _, _, _)
DayEntries(st, baseDaily, daysArray, n) ==
    IF n = 0 THEN <<>>
    ELSE LET before == DayEntries(st, baseDaily, daysArray, n - 1)
             dateKey == formatISO(daysArray[n])
             availableForDay == FAdd(baseDaily, CarryoverInto(before, n))
             spent == SpentOf(st, dateKey, availableForDay)
             remaining == FSub(availableForDay, spent)
         IN  Append(before, [date |-> daysArray[n], dateKey |-> dateKey,
                             allowance |-> availableForDay, spent |-> spent,
                             remaining |-> remaining])

\* Variant of SumSpent: the last day is not counted.
RECURSIVE SumSpentBeforeLast(_, _)
SumSpentBeforeLast(days, n) ==
    IF n <= 1 THEN 0 ELSE FAdd(SumSpentBeforeLast(days, n - 1), days[n - 1].spent)

RECURSIVE SumSpent(_, _)
SumSpent(days, n) == IF n = 0 THEN 0 ELSE FAdd(SumSpent(days, n - 1), days[n].spent)

isBefore(date, dateToCompare) == date < dateToCompare

\* isToday reads the clock, whose day is now.
isToday(date, now) == date = now

\* Variant of UpToToday: the day of the clock is left out.
BeforeToday(dayDate, now) == isBefore(dayDate, now)

\* Both dates are at the start of their day, so the test compares calendar days.
UpToToday(dayDate, now) == isBefore(dayDate, now) \/ isToday(dayDate, now)

\* The spent of the days on or before now, added up from the left.
RECURSIVE SumSpentUpTo(_, _, _)
SumSpentUpTo(days, n, now) ==
    IF n = 0 THEN 0
    ELSE IF UpToToday(days[n].date, now)
         THEN FAdd(SumSpentUpTo(days, n - 1, now), days[n].spent)
         ELSE SumSpentUpTo(days, n - 1, now)

\* Variant of Percentage: the ratio is not capped.
PercentageUncapped(totalSpent, avail) ==
    IF avail > 0 THEN FMul(FDiv(totalSpent, avail), Num(100)) ELSE 0

Percentage(totalSpent, avail) ==
    IF avail > 0 THEN MathMin(Num(100), FMul(FDiv(totalSpent, avail), Num(100))) ELSE 0

\* Variant of TotalRemaining: an overspent total shows as nothing remaining.
TotalRemainingFloored(avail, totalSpent) == MathMax(0, FSub(avail, totalSpent))

TotalRemaining(avail, totalSpent) == FSub(avail, totalSpent)

\* Variant of RangeInvalid: a range of a single day is rejected.
RangeInvalidUnlessLonger(startDate, endDate) ==
    ~isValid(startDate) \/ ~isValid(endDate) \/ startDate >= endDate

\* Variant of RangeInvalid: the order of the two dates is not looked at.
RangeInvalidIgnoringOrder(startDate, endDate) == ~isValid(startDate) \/ ~isValid(endDate)

RangeInvalid(startDate, endDate) ==
    ~isValid(startDate) \/ ~isValid(endDate) \/ startDate > endDate

InvalidLedger(avail) ==
    [daysCount |-> 0, available |-> avail, dailyAllowance |-> 0, days |-> <<>>,
     isValidRange |-> FALSE, totalSpent |-> 0, totalRemaining |-> avail,
     spentPercentage |-> 0]

\* Variant of DaysCount: the end day is not counted.
DaysCountExclusive(startDate, endDate) == differenceInDays(endDate, startDate)

DaysCount(startDate, endDate) == differenceInDays(endDate, startDate) + 1

\* Variant of BaseDaily: every day is given the whole available amount.
BaseDailyUndivided(avail, daysCount) == IF daysCount > 0 THEN avail ELSE 0

BaseDaily(avail, daysCount) == IF daysCount > 0 THEN FDiv(avail, Num(daysCount)) ELSE 0

ValidLedger(st, avail, startDate, endDate, now) ==
    LET daysCount == DaysCount(startDate, endDate)
        baseDaily == BaseDaily(avail, daysCount)
        daysArray == eachDayOfInterval(startDate, endDate)
        days == DayEntries(st, baseDaily, daysArray, Len(daysArray))
        totalSpent == SumSpent(days, Len(days))
    IN  [daysCount |-> daysCount, available |-> avail, dailyAllowance |-> baseDaily,
         days |-> days, isValidRange |-> TRUE, totalSpent |-> totalSpent,
         totalRemaining |-> TotalRemaining(avail, totalSpent),
         spentPercentage |-> Percentage(totalSpent, avail),
         spentUpToToday |-> SumSpentUpTo(days, Len(days), now)]

\* The outcome of an evaluation that an exception leaves.
Raised == [raised |-> "RangeError"]

\* The ledger of a render at day `now`.
Ledger(st, now) ==
    LET startDate == parseISO(st.startDate)
        endDate == parseISO(st.endDate)
    IN  IF RangeInvalid(startDate, endDate)
        THEN InvalidLedger(available(st))
        ELSE IF IntervalThrows(startDate, endDate)
        THEN Raised
        ELSE ValidLedger(st, available(st), startDate, endDate, now)

----------------------------------------------------------------------------
(* The planner state and its construction *)

\* Stored content.  localStorage holds nothing under STORAGE_KEY (NoBlob), a text that
\* JSON.parse rejects or the empty text ([text |-> t]), or the text of a JSON value
\* ([json |-> value]).  A JSON object is a record of the fields it has, a JSON array is
\* [array |-> elements], null is JsonNull, any other value is a record without any of the
\* planner's fields.  A field of a stored object holds a text (an expenses object for
\* expenses); savingsGoals may hold any value.
NoBlob == [absent |-> TRUE]

JsonNull == [null |-> TRUE]

IsNull(value) == "null" \in DOMAIN value

\* Variant of JSONstringify: the expenses are left out of the text.
JSONstringifyWithoutExpenses(st) ==
    [json |-> [k \in DOMAIN st \ {"expenses"} |->
                 IF k = "savingsGoals" THEN [array |-> st[k]] ELSE st[k]]]

\* JSON.stringify of a planner state, whose values are all texts, lists and objects.
JSONstringify(st) == [json |-> [st EXCEPT !.savingsGoals = [array |-> @]]]

\* parsed[field] is a text that `||` keeps: present and not empty.
Kept(parsed, field, emptyText) == field \in DOMAIN parsed /\ parsed[field] # emptyText

PlaceholderGoal(id) ==
    [id |-> id, name |-> "General Savings", amount |-> "0", category |-> "other"]

\* The goal with its category, "other" when it has none.
MigratedGoal(goal) ==
    [k \in DOMAIN goal \cup {"category"} |->
        IF k = "category"
        THEN (IF "category" \in DOMAIN goal /\ goal.category # "" THEN goal.category
              ELSE "other")
        ELSE goal[k]]

\* (parsed.savingsGoals || []).map(...): the stored goals, each with a category.
migratedGoals(parsed) ==
    IF "savingsGoals" \in DOMAIN parsed /\ ~IsNull(parsed.savingsGoals)
    THEN [i \in 1..Len(parsed.savingsGoals.array) |->
            MigratedGoal(parsed.savingsGoals.array[i])]
    ELSE <<>>

\* Reading the stored value raises a TypeError inside the try block: the value is null,
\* its savingsGoals is not a list, or one of the listed goals is null.
ReadThrows(parsed) ==
    \/ IsNull(parsed)
    \/ /\ "savingsGoals" \in DOMAIN parsed
       /\ ~IsNull(parsed.savingsGoals)
       /\ \/ "array" \notin DOMAIN parsed.savingsGoals
          \/ \E i \in 1..Len(parsed.savingsGoals.array) :
                IsNull(parsed.savingsGoals.array[i])

\* The state of a planner that starts afresh.
FreshState(now, id) ==
    LET defaults == getDefaultDates(now)
    IN  [totalAmount |-> "", startDate |-> defaults.startDate,
         endDate |-> defaults.endDate, expenses |-> <<>>,
         savingsGoals |-> <<PlaceholderGoal(id)>>]

\* The useState initialiser: the saved fields, each falsy one replaced by its default.
InitialState(saved, now, id) ==
    IF "json" \notin DOMAIN saved \/ ReadThrows(saved.json)
    THEN FreshState(now, id)
    ELSE LET parsed == saved.json
             defaults == getDefaultDates(now)
             goals == migratedGoals(parsed)
         IN  [totalAmount |-> IF Kept(parsed, "totalAmount", "") THEN parsed.totalAmount
                              ELSE "",
              startDate |-> IF Kept(parsed, "startDate", <<>>) THEN parsed.startDate
                            ELSE defaults.startDate,
              endDate |-> IF Kept(parsed, "endDate", <<>>) THEN parsed.endDate
                          ELSE defaults.endDate,
              expenses |-> IF "expenses" \in DOMAIN parsed THEN parsed.expenses ELSE <<>>,
              savingsGoals |-> IF Len(goals) > 0 THEN goals ELSE <<PlaceholderGoal(id)>>]

\* The memo cell of `calculations` before the first render has filled it.
NotComputed == [pending |-> TRUE]

Rendered == calculations # NotComputed

----------------------------------------------------------------------------
(* Bounded inputs *)

\* The first day of the modelled days: January 30, so that NumDays days cross a month
\* boundary.
FirstDay == parseISO(<<2024, 1, 30>>)

ValidDateTexts == {formatISO(FirstDay + i) : i \in 0..(NumDays - 1)}

\* <<>> is the empty text; February 30 is well-formed text but no calendar day.
DateTexts == ValidDateTexts \cup {<<>>, <<2024, 2, 30>>}

ExpenseTexts == {"", "abc", "80", "300"}

\* Expense maps: some of the days carry a text.
ExpenseMaps == UNION {[keys -> ExpenseTexts] : keys \in SUBSET ValidDateTexts}

GoalOf(id, amount) == [id |-> id, name |-> "", amount |-> amount, category |-> "other"]

GoalAmountTexts == {"0", "200", "-100", "abc", "1200"}

\* Goal lists of 1..MaxGoals goals, the goal at position i having id i.
GoalLists ==
    UNION {{[i \in 1..n |-> GoalOf(i, f[i])] : f \in [1..n -> GoalAmountTexts]} :
             n \in 1..MaxGoals}

\* States that vary the range and the expenses.
LedgerInputs ==
    [totalAmount : {"", "300", "1000"}, startDate : DateTexts, endDate : DateTexts,
     expenses : ExpenseMaps, savingsGoals : {<<GoalOf(1, "200")>>}]

\* States that vary the amounts.
AmountInputs ==
    [totalAmount : {"", "abc", "-50", "100", "1000"},
     startDate : {formatISO(FirstDay), formatISO(FirstDay + 1)},
     endDate : {formatISO(FirstDay)},
     expenses : {<<>>}, savingsGoals : GoalLists]

\* States of a valid range with amounts on some of its days, rendered on every day of
\* Todays.
TodayInputs ==
    [totalAmount : {"1000"}, startDate : ValidDateTexts, endDate : ValidDateTexts,
     expenses : UNION {[keys -> {"80", "300"}] : keys \in SUBSET ValidDateTexts},
     savingsGoals : {<<GoalOf(1, "200")>>}]

\* The days of the clock: from the day before the modelled days to the day after them.
Todays == (FirstDay - 1)..(FirstDay + NumDays)

\* Scenario A: 3100 over the 31 days of January, nothing saved, nothing entered.
ScenarioAInputs ==
    [totalAmount : {"3100"}, startDate : {<<2024, 1, 1>>}, endDate : {<<2024, 1, 31>>},
     expenses : {<<>>}, savingsGoals : {<<GoalOf(1, "0")>>}]

\* States in which a day overspends by far less than the base daily share.
SmallOverspendInputs ==
    [totalAmount : {"1100"}, startDate : {formatISO(FirstDay)},
     endDate : {formatISO(FirstDay + 2)},
     expenses : UNION {[keys -> {"600", "0.05"}] :
                         keys \in SUBSET {formatISO(FirstDay), formatISO(FirstDay + 1)}},
     savingsGoals : {<<GoalOf(1, "200")>>}]

----------------------------------------------------------------------------
(* Operations *)

\* The commit of a new state object with the ledger of its render; it schedules the
\* persistence effect.
Commit(st, ledger) ==
    /\ state' = st
    /\ calculations' = ledger
    /\ persistPending' = TRUE
    /\ UNCHANGED <<today, stored, copied, toasted, inFlight, clipboard, timers>>

\* The dependencies of the calculations memo other than the expenses object:
\* [state.totalAmount, state.startDate, state.endDate, state.expenses, totalSavings].
MemoDeps(st) == <<st.totalAmount, st.startDate, st.endDate, totalSavings(st)>>

\* A render that evaluates the calculation at the current day.
Evaluate(st) == Commit(st, Ledger(st, today))

\* A render of a state that holds the expenses object of the last render: useMemo
\* evaluates the calculation when one of the other dependencies has changed and returns
\* the ledger of the last evaluation when none has.
Render(st) ==
    Commit(st, IF MemoDeps(st) = MemoDeps(state) THEN calculations ELSE Ledger(st, today))

FirstRender ==
    /\ ~Rendered
    /\ Evaluate(state)

\* The component has rendered and the effect of its last commit has run: React runs the
\* pending effect before it handles the next event.
Idle == Rendered /\ ~persistPending

\* useEffect(..., [state]): the state of the last commit is written under STORAGE_KEY.
PersistEffect ==
    /\ persistPending
    /\ stored' = JSONstringify(state)
    /\ persistPending' = FALSE
    /\ UNCHANGED <<state, calculations, today, copied, toasted, inFlight, clipboard, timers>>

\* Variant of hasValidInput: the validity of the range is not looked at.
hasValidInputAmountOnly ==
    /\ Rendered
    /\ parseFloat(state.totalAmount) # NaN
    /\ parseFloat(state.totalAmount) > 0

hasValidInput ==
    /\ Rendered
    /\ parseFloat(state.totalAmount) # NaN
    /\ parseFloat(state.totalAmount) > 0
    /\ calculations.isValidRange

\* The summary, the day cards and the export buttons are rendered.
LedgerViewShown == hasValidInput

\* The empty state is rendered in their place.
EmptyStateShown == Rendered /\ ~hasValidInput

SelectValidRange == "Please select a valid date range (end date must be after start date)"
EnterAmountAndRange ==
    "Enter your total amount and date range to see your daily spending plan"

\* The text of the empty state.
GuidanceText ==
    IF ~calculations.isValidRange /\ state.startDate # <<>> /\ state.endDate # <<>>
    THEN SelectValidRange
    ELSE EnterAmountAndRange

setTotalAmount(value) == Idle /\ Render([state EXCEPT !.totalAmount = value])

\* Variant of setStartDate: the entries of the days before the new start are dropped.
setStartDatePruning(value) ==
    /\ Idle
    /\ Render([state EXCEPT !.startDate = value,
                            !.expenses = [k \in {key \in DOMAIN @ :
                                                   parseISO(key) >= parseISO(value)} |->
                                            @[k]]])

setStartDate(value) == Idle /\ Render([state EXCEPT !.startDate = value])

setEndDate(value) == Idle /\ Render([state EXCEPT !.endDate = value])

\* Variant of handleExpenseChange: the new expenses hold the changed entry alone.
handleExpenseChangeAlone(dateKey, value) ==
    /\ Idle
    /\ hasValidInput
    /\ \E i \in 1..Len(calculations.days) : calculations.days[i].dateKey = dateKey
    /\ Evaluate([state EXCEPT !.expenses = [k \in {dateKey} |-> value]])

\* The expense input of a rendered day card.
handleExpenseChange(dateKey, value) ==
    /\ Idle
    /\ hasValidInput
    /\ \E i \in 1..Len(calculations.days) : calculations.days[i].dateKey = dateKey
    /\ Evaluate([state EXCEPT !.expenses =
                 [k \in DOMAIN state.expenses \cup {dateKey} |->
                    IF k = dateKey THEN value ELSE state.expenses[k]]])

updateSavingsGoal(id, field, value) ==
    /\ Idle
    /\ Render([state EXCEPT !.savingsGoals =
                 [i \in 1..Len(state.savingsGoals) |->
                    IF state.savingsGoals[i].id = id
                    THEN [state.savingsGoals[i] EXCEPT ![field] = value]
                    ELSE state.savingsGoals[i]]])

\* Variant of addSavingsGoal: the new goal starts with an amount of 200.
addSavingsGoalFunded(id) ==
    /\ Idle
    /\ Len(state.savingsGoals) < MaxGoals
    /\ Render([state EXCEPT !.savingsGoals =
                 Append(@, [id |-> id, name |-> "", amount |-> "200", category |-> "other"])])

\* generateId() returns id; the list grows by one empty goal.
addSavingsGoal(id) ==
    /\ Idle
    /\ Len(state.savingsGoals) < MaxGoals
    /\ Render([state EXCEPT !.savingsGoals =
                 Append(@, [id |-> id, name |-> "", amount |-> "0", category |-> "other"])])

\* The goals of st without those whose id is id, in their order.
RECURSIVE GoalsWithout(_, _, _)
GoalsWithout(goals, id, n) ==
    IF n = 0 THEN <<>>
    ELSE IF goals[n].id = id THEN GoalsWithout(goals, id, n - 1)
    ELSE Append(GoalsWithout(goals, id, n - 1), goals[n])

\* The last goal is not removed: the handler shows a notification and returns before it
\* changes the state.
removeSavingsGoal(id) ==
    /\ Idle
    /\ IF Len(state.savingsGoals) <= 1
       THEN /\ toasted' = "Cannot remove"
            /\ UNCHANGED <<state, calculations, today, stored, persistPending, copied,
                           inFlight, clipboard, timers>>
       ELSE Render([state EXCEPT !.savingsGoals = GoalsWithout(@, id, Len(@))])

----------------------------------------------------------------------------
(* Copying the plan to the clipboard *)

\* Intl.NumberFormat with two fraction digits: the sign and the number of cents of the
\* amount, a half cent rounded away from zero.
formatCurrency(amount) ==
    LET magnitude == IF amount < 0 THEN 0 - amount ELSE amount
    IN  [negative |-> amount < 0,
         cents |-> (2 * 100 * magnitude + Unit) \div (2 * Unit)]

DayNames ==
    <<"Monday", "Tuesday", "Wednesday", "Thursday", "Friday", "Saturday", "Sunday">>

\* format(date, "EEEE"): January 1, 2024 is a Monday.
dayName(date) == DayNames[((date - 1) % 7) + 1]

\* format(date, "MMMM d, yyyy"): the month, the day, the year.
formattedDate(date) ==
    LET text == formatISO(date) IN <<text[2], text[3], text[1]>>

\* Variant of ExportLine: the spent and remaining segments are left out only when spent
\* is zero.
ExportLineUnlessZero(day) ==
    [dayName |-> dayName(day.date), formattedDate |-> formattedDate(day.date),
     allowance |-> formatCurrency(day.allowance),
     detail |-> IF day.spent # 0
                THEN <<formatCurrency(day.spent), formatCurrency(day.remaining)>>
                ELSE <<>>]

\* One line of the copied text.
ExportLine(day) ==
    [dayName |-> dayName(day.date), formattedDate |-> formattedDate(day.date),
     allowance |-> formatCurrency(day.allowance),
     detail |-> IF day.spent > 0
                THEN <<formatCurrency(day.spent), formatCurrency(day.remaining)>>
                ELSE <<>>]

\* The lines of the copied text, joined in the order of the days.
ExportText(days) == [i \in 1..Len(days) |-> ExportLine(days[i])]

\* The click on Copy: the text is built from the ledger and handed to the clipboard; the
\* handler waits for the write to settle.
handleCopy ==
    /\ Idle
    /\ hasValidInput
    /\ Len(inFlight) + timers < MaxCopies
    /\ inFlight' = Append(inFlight, ExportText(calculations.days))
    /\ UNCHANGED <<state, calculations, today, stored, persistPending, copied, toasted,
                   clipboard, timers>>

\* The write succeeded: the handler sets the flag, notifies and starts the reset timer.
ClipboardResolves ==
    /\ inFlight # <<>>
    /\ clipboard' = Head(inFlight)
    /\ inFlight' = Tail(inFlight)
    /\ copied' = TRUE
    /\ toasted' = "Copied!"
    /\ timers' = timers + 1
    /\ UNCHANGED <<state, calculations, today, stored, persistPending>>

\* Variant of ClipboardRejects: the flag is set before the write has settled, so that a
\* failed write leaves it set.
ClipboardRejectsButFlagged ==
    /\ inFlight # <<>>
    /\ inFlight' = Tail(inFlight)
    /\ toasted' = "Copy failed"
    /\ copied' = TRUE
    /\ UNCHANGED <<state, calculations, today, stored, persistPending, clipboard, timers>>

\* The write failed: the handler catches the rejection and notifies.
ClipboardRejects ==
    /\ inFlight # <<>>
    /\ inFlight' = Tail(inFlight)
    /\ toasted' = "Copy failed"
    /\ UNCHANGED <<state, calculations, today, stored, persistPending, copied, clipboard,
                   timers>>

\* A reset timer fires, two seconds after its write succeeded.
CopiedTimeout ==
    /\ timers > 0
    /\ timers' = timers - 1
    /\ copied' = FALSE
    /\ UNCHANGED <<state, calculations, today, stored, persistPending, toasted, inFlight,
                   clipboard>>

----------------------------------------------------------------------------
(* The planner: construction from the stored blob, the first render, the edits *)

\* The ids that generateId() returns; two calls may return the same one.
GoalIds == {1, 2}

EditTotalTexts == {"", "300"}
EditStartTexts == {formatISO(FirstDay), formatISO(FirstDay + 1)}
EditEndTexts == {formatISO(FirstDay), formatISO(FirstDay + 1), <<2024, 2, 30>>}
EditExpenseKeys == {formatISO(FirstDay)}
EditExpenseTexts == {"", "80"}
EditGoalAmountTexts == {"0", "200"}

\* The stored states that the planner is started from: no goal, one goal, two goals
\* stored under one id.
SavedBlobs ==
    {[json |-> object] :
       object \in [totalAmount : EditTotalTexts, startDate : {formatISO(FirstDay)},
                   endDate : {formatISO(FirstDay + 1)}, expenses : {<<>>},
                   savingsGoals : {[array |-> <<>>], [array |-> <<GoalOf(1, "200")>>],
                                   [array |-> <<GoalOf(1, "200"), GoalOf(1, "0")>>]}]}

\* The cells of the component other than the state, as the component is constructed.
Mounting ==
    /\ calculations = NotComputed
    /\ persistPending = FALSE
    /\ copied = FALSE
    /\ toasted = ""
    /\ inFlight = <<>>
    /\ clipboard = <<>>
    /\ timers = 0

Init ==
    /\ today = FirstDay + 1
    /\ stored \in SavedBlobs
    /\ \E id \in GoalIds : state = InitialState(stored, today, id)
    /\ Mounting

Next ==
    \/ FirstRender
    \/ PersistEffect
    \/ \E v \in EditTotalTexts : setTotalAmount(v)
    \/ \E v \in EditStartTexts : setStartDate(v)
    \/ \E v \in EditEndTexts : setEndDate(v)
    \/ \E k \in EditExpenseKeys, v \in EditExpenseTexts : handleExpenseChange(k, v)
    \/ \E id \in GoalIds : addSavingsGoal(id)
    \/ \E id \in GoalIds, v \in EditGoalAmountTexts : updateSavingsGoal(id, "amount", v)
    \/ \E id \in GoalIds : removeSavingsGoal(id)

Spec == Init /\ [][Next]_vars

\* React runs the effect of a commit: a pending write is not postponed for ever.
FairSpec == Spec /\ WF_vars(PersistEffect)

----------------------------------------------------------------------------
(* The planner loaded from any stored content: construction, first render, first write *)

\* A stored value that is not a list: a text, a number, an object.
NotAList == [string |-> "goals"]

\* Stored goals: complete, of another category, without a category, with an empty
\* category, with an amount only.
StoredGoals ==
    {GoalOf(1, "200"),
     [id |-> 1, name |-> "", amount |-> "200", category |-> "vacation"],
     [id |-> 1, name |-> "", amount |-> "200"],
     [id |-> 1, name |-> "", amount |-> "200", category |-> ""],
     [amount |-> "200"]}

\* The stored values of savingsGoals: null, not a list, a list of no goal, of one goal, of
\* null, of two goals.
StoredGoalValues ==
    {JsonNull, NotAList, [array |-> <<>>], [array |-> <<JsonNull>>],
     [array |-> <<GoalOf(1, "200"), GoalOf(2, "0")>>]}
    \cup {[array |-> <<goal>>] : goal \in StoredGoals}

FieldNames == {"totalAmount", "startDate", "endDate", "expenses", "savingsGoals"}

\* Stored objects: every field is missing, empty or filled.
StoredObjects ==
    {[k \in fields |-> object[k]] :
       object \in [totalAmount : {"", "300"}, startDate : {<<>>, formatISO(FirstDay)},
                   endDate : {<<>>, formatISO(FirstDay + 1)}, expenses : {<<>>},
                   savingsGoals : StoredGoalValues],
       fields \in SUBSET FieldNames \ {{}}}

StoredContents ==
    {NoBlob, [text |-> ""], [text |-> "{oops"], [json |-> JsonNull],
     [json |-> [number |-> 5]], [json |-> [version |-> "1"]]}
    \cup {[json |-> object] : object \in StoredObjects}

InitLoad ==
    /\ today = FirstDay + 1
    /\ stored \in StoredContents
    /\ \E id \in GoalIds : state = InitialState(stored, today, id)
    /\ Mounting

NextLoad == FirstRender \/ PersistEffect

SpecLoad == InitLoad /\ [][NextLoad]_vars

----------------------------------------------------------------------------
(* The planner with its Copy button *)

CopyExpenseTexts == {"", "0", "80", "300"}

\* A stored plan of the two days from FirstDay, with 100 available.
CopyBlobs ==
    {[json |-> object] :
       object \in [totalAmount : {"300"}, startDate : {formatISO(FirstDay)},
                   endDate : {formatISO(FirstDay + 1)},
                   expenses : {<<>>} \cup [{formatISO(FirstDay)} -> {"300"}],
                   savingsGoals : {[array |-> <<GoalOf(1, "200")>>]}]}

InitCopy ==
    /\ today = FirstDay + 1
    /\ stored \in CopyBlobs
    /\ \E id \in GoalIds : state = InitialState(stored, today, id)
    /\ Mounting

NextCopy ==
    \/ FirstRender
    \/ PersistEffect
    \/ \E v \in CopyExpenseTexts : handleExpenseChange(formatISO(FirstDay), v)
    \/ \E v \in EditTotalTexts : setTotalAmount(v)
    \/ handleCopy
    \/ ClipboardResolves
    \/ ClipboardRejects
    \/ CopiedTimeout

SpecCopy == InitCopy /\ [][NextCopy]_vars

\* A timer that has been started fires.
FairSpecCopy == SpecCopy /\ WF_vars(CopiedTimeout)

----------------------------------------------------------------------------
(* The planner left open while the days pass *)

\* new Date() in the calculation is the day of the evaluation: the local day changes
\* while the component stays mounted.
MidnightPasses ==
    /\ Idle
    /\ today < FirstDay + NumDays - 1
    /\ today' = today + 1
    /\ UNCHANGED <<state, calculations, stored, persistPending, copied, toasted, inFlight,
                   clipboard, timers>>

\* The texts typed into the name of a goal and into the total amount; an input reports
\* a change when its text differs from the one it shows.
ClockGoalNames == {"", "rent"}
ClockTotalTexts == {"300", "1000"}

\* A stored plan of the NumDays days from FirstDay with one goal of 200.
ClockBlobs ==
    {[json |-> object] :
       object \in [totalAmount : {"300"}, startDate : {formatISO(FirstDay)},
                   endDate : {formatISO(FirstDay + NumDays - 1)},
                   expenses : {<<>>} \cup [{formatISO(FirstDay)} -> {"80"}],
                   savingsGoals : {[array |-> <<GoalOf(1, "200")>>]}]}

InitClock ==
    /\ today = FirstDay
    /\ stored \in ClockBlobs
    /\ \E id \in GoalIds : state = InitialState(stored, today, id)
    /\ Mounting

NextClock ==
    \/ FirstRender
    \/ PersistEffect
    \/ MidnightPasses
    \/ \E v \in ClockTotalTexts \ {state.totalAmount} : setTotalAmount(v)
    \/ \E k \in ValidDateTexts, v \in EditExpenseTexts : handleExpenseChange(k, v)
    \/ \E id \in GoalIds, v \in ClockGoalNames : updateSavingsGoal(id, "name", v)

SpecClock == InitClock /\ [][NextClock]_vars

----------------------------------------------------------------------------
(* The month-based variant (src/unnamed/part_000): construction, first render, write *)

\* The state of a planner that starts afresh; a month text "yyyy-MM" is <<year, month>>.
MonthFreshState(now) ==
    [totalAmount |-> "", desiredSaving |-> "0", selectedMonth |-> <<2024, MonthOf(now, 1)>>]

\* The useState initialiser: the parsed value itself when the stored text parses.
MonthInitialState(saved, now) ==
    IF "json" \in DOMAIN saved THEN saved.json ELSE MonthFreshState(now)

\* parseFloat(st[field]) || 0; a missing field reads as undefined, which parses to NaN.
MonthAmount(st, field) ==
    IF field \in DOMAIN st THEN OrZero(parseFloat(st[field])) ELSE 0

\* The calculation raises a TypeError: the state is null, or it has no selectedMonth to
\* split.
MonthCalculationThrows(st) == IsNull(st) \/ "selectedMonth" \notin DOMAIN st

MonthRaised == [raised |-> "TypeError"]

\* The calculation of the month-based variant.
MonthLedger(st) ==
    LET total == MonthAmount(st, "totalAmount")
        saving == MonthAmount(st, "desiredSaving")
        month == st.selectedMonth[2]
        daysInMonth == DaysInMonth[month]
        avail == MathMax(0, FSub(total, saving))
        daily == IF daysInMonth > 0 THEN FDiv(avail, Num(daysInMonth)) ELSE 0
    IN  [daysInMonth |-> daysInMonth, available |-> avail, dailyAllowance |-> daily,
         days |-> [i \in 1..daysInMonth |->
                     [date |-> DaysBefore(month) + i, amount |-> daily]]]

\* The first render: a calculation that raises leaves nothing rendered and no effect to
\* run.
MonthFirstRender ==
    /\ ~Rendered
    /\ calculations' = IF MonthCalculationThrows(state) THEN MonthRaised
                       ELSE MonthLedger(state)
    /\ persistPending' = ~MonthCalculationThrows(state)
    /\ UNCHANGED <<state, today, stored, copied, toasted, inFlight, clipboard, timers>>

\* useEffect(..., [state]): the state is written under STORAGE_KEY.
MonthPersistEffect ==
    /\ persistPending
    /\ stored' = [json |-> state]
    /\ persistPending' = FALSE
    /\ UNCHANGED <<state, calculations, today, copied, toasted, inFlight, clipboard, timers>>

MonthFieldNames == {"totalAmount", "desiredSaving", "selectedMonth"}

\* Stored objects: every field is missing or filled.
MonthStoredObjects ==
    {[k \in fields |-> object[k]] :
       object \in [totalAmount : {"", "300", "1000", "abc"}, desiredSaving : {"0", "200"},
                   selectedMonth : {<<2024, 1>>, <<2024, 2>>}],
       fields \in SUBSET MonthFieldNames \ {{}}}

MonthStoredContents ==
    {NoBlob, [text |-> ""], [text |-> "{oops"], [json |-> JsonNull],
     [json |-> [version |-> "1"]]}
    \cup {[json |-> object] : object \in MonthStoredObjects}

InitMonth ==
    /\ today = FirstDay + 1
    /\ stored \in MonthStoredContents
    /\ state = MonthInitialState(stored, today)
    /\ Mounting

NextMonth == MonthFirstRender \/ MonthPersistEffect

SpecMonth == InitMonth /\ [][NextMonth]_vars

----------------------------------------------------------------------------
(* The planner with every edit: two days, an entry on the second, one or two goals *)

EditKeys == {formatISO(FirstDay), formatISO(FirstDay + 1)}

\* The ids of the goals that are given a name.
NamedGoalIds == {1}

\* The texts typed into the fields of a goal.
EditGoalTexts == [name |-> ClockGoalNames, amount |-> EditGoalAmountTexts]

\* A stored plan of the two days from FirstDay with an entry on the second, and one goal
\* or two goals under one id.
EditBlobs ==
    {[json |-> object] :
       object \in [totalAmount : {"300"}, startDate : {formatISO(FirstDay)},
                   endDate : {formatISO(FirstDay + 1)},
                   expenses : [{formatISO(FirstDay + 1)} -> {"80"}],
                   savingsGoals : {[array |-> <<GoalOf(1, "200")>>],
                                   [array |-> <<GoalOf(1, "200"), GoalOf(1, "0")>>]}]}

InitEdits ==
    /\ today = FirstDay + 1
    /\ stored \in EditBlobs
    /\ \E id \in GoalIds : state = InitialState(stored, today, id)
    /\ Mounting

NextEdits ==
    \/ FirstRender
    \/ PersistEffect
    \/ \E v \in ClockTotalTexts : setTotalAmount(v)
    \/ \E v \in EditKeys : setStartDate(v)
    \/ \E v \in EditKeys : setEndDate(v)
    \/ \E k \in EditExpenseKeys, v \in EditExpenseTexts : handleExpenseChange(k, v)
    \/ \E id \in GoalIds : addSavingsGoal(id)
    \/ \E id \in GoalIds, v \in EditGoalTexts.amount : updateSavingsGoal(id, "amount", v)
    \/ \E id \in NamedGoalIds, v \in EditGoalTexts.name : updateSavingsGoal(id, "name", v)
    \/ \E id \in GoalIds : removeSavingsGoal(id)

SpecEdits == InitEdits /\ [][NextEdits]_vars

----------------------------------------------------------------------------
(* The range-only variant (src/unnamed/part_001) beside the final one: the first render *)

\* The result of the range-only calculation for an invalid range.
RangeInvalidLedger(avail) ==
    [daysCount |-> 0, available |-> avail, dailyAllowance |-> 0, days |-> <<>>,
     isValidRange |-> FALSE]

\* The calculation of the range-only variant: every day is given the daily share.
RangeLedger(st) ==
    LET total == OrZero(parseFloat(st.totalAmount))
        saving == OrZero(parseFloat(st.desiredSaving))
        avail == MathMax(0, FSub(total, saving))
        startDate == parseISO(st.startDate)
        endDate == parseISO(st.endDate)
    IN  IF ~isValid(startDate) \/ ~isValid(endDate) \/ startDate > endDate
        THEN RangeInvalidLedger(avail)
        ELSE IF IntervalThrows(startDate, endDate)
        THEN Raised
        ELSE LET daysCount == differenceInDays(endDate, startDate) + 1
                 daily == IF daysCount > 0 THEN FDiv(avail, Num(daysCount)) ELSE 0
                 daysArray == eachDayOfInterval(startDate, endDate)
             IN  [daysCount |-> daysCount, available |-> avail, dailyAllowance |-> daily,
                  days |-> [i \in 1..Len(daysArray) |->
                              [date |-> daysArray[i], amount |-> daily]],
                  isValidRange |-> TRUE]

\* The state is one of the range-only variant.
RangeOnly(st) == "desiredSaving" \in DOMAIN st

\* The first render of the range-only variant.
RangeFirstRender ==
    /\ ~Rendered
    /\ RangeOnly(state)
    /\ calculations' = RangeLedger(state)
    /\ persistPending' = TRUE
    /\ UNCHANGED <<state, today, stored, copied, toasted, inFlight, clipboard, timers>>

RefineTotalTexts == {"", "abc", "300", "1000"}

\* States of the range-only variant.
RangeInputs ==
    [totalAmount : RefineTotalTexts, startDate : DateTexts, endDate : DateTexts,
     desiredSaving : GoalAmountTexts]

\* States of the final variant without an expense entry.
FinalInputs ==
    [totalAmount : RefineTotalTexts, startDate : DateTexts, endDate : DateTexts,
     expenses : {<<>>}, savingsGoals : GoalLists]

InitRefine ==
    /\ today = FirstDay + 1
    /\ state \in RangeInputs \cup FinalInputs
    /\ stored = NoBlob
    /\ Mounting

NextRefine ==
    \/ ~RangeOnly(state) /\ FirstRender
    \/ RangeFirstRender

SpecRefine == InitRefine /\ [][NextRefine]_vars

----------------------------------------------------------------------------
(* The ledger of every bounded input: the state of a render, then the render *)

InitLedger ==
    /\ today \in Todays
    /\ state \in (IF today = FirstDay + 1
                  THEN LedgerInputs \cup AmountInputs \cup SmallOverspendInputs
                           \cup ScenarioAInputs
                  ELSE TodayInputs)
    /\ stored = NoBlob
    /\ Mounting

NextLedger == FirstRender

SpecLedger == InitLedger /\ [][NextLedger]_vars

----------------------------------------------------------------------------
(* Properties of the ledger, checked under SpecLedger *)

ValidRendered == Rendered /\ calculations.isValidRange
InvalidRendered == Rendered /\ ~calculations.isValidRange

Days == calculations.days

NoEntry(dateKey) == dateKey \notin DOMAIN state.expenses \/ state.expenses[dateKey] = ""

\* C1: in a valid range the first day's allowance is the base daily share, every later
\* day's allowance is the base daily share plus the previous day's remaining, and every
\* day's remaining is its allowance minus its spent (possibly negative).
C1_CarryoverRecurrence ==
    ValidRendered =>
        \A i \in 1..Len(Days) :
            /\ Days[i].remaining = FSub(Days[i].allowance, Days[i].spent)
            /\ i = 1 => Days[i].allowance = calculations.dailyAllowance
            /\ i > 1 => Days[i].allowance =
                            FAdd(calculations.dailyAllowance, Days[i - 1].remaining)

\* A surplus and a deficit are both carried into a next day.
C1_Witness ==
    /\ ValidRendered
    /\ Len(Days) >= 3
    /\ Days[1].remaining > 0
    /\ Days[2].remaining < 0
    /\ Days[3].allowance < calculations.dailyAllowance

\* C2: a day of a valid range without an entry (absent, or the empty text) has spent equal
\* to its allowance and remaining 0, so the next day's allowance is the base daily share,
\* whatever was carried into the day; a day with a non-empty entry has the entry's parsed
\* amount as spent, 0 when the text does not parse.
C2_DefaultSpend ==
    ValidRendered =>
        \A i \in 1..Len(Days) :
            IF NoEntry(Days[i].dateKey)
            THEN /\ Days[i].spent = Days[i].allowance
                 /\ Days[i].remaining = 0
                 /\ i < Len(Days) => Days[i + 1].allowance = calculations.dailyAllowance
            ELSE Days[i].spent =
                     (IF parseFloat(state.expenses[Days[i].dateKey]) = NaN THEN 0
                      ELSE parseFloat(state.expenses[Days[i].dateKey]))

\* A day without an entry that received a deficit, after a day whose entry does not parse.
C2_Witness ==
    /\ ValidRendered
    /\ Len(Days) >= 3
    /\ ~NoEntry(Days[1].dateKey)
    /\ parseFloat(state.expenses[Days[1].dateKey]) = NaN
    /\ Days[1].spent = 0
    /\ Days[2].allowance # calculations.dailyAllowance
    /\ NoEntry(Days[2].dateKey)
    /\ Days[3].allowance = calculations.dailyAllowance

\* C3, as claimed: after a day that spent more than its allowance, the next day's allowance
\* is less than the base daily share by exactly the overspent amount (both differences
\* taken as the program would compute them).
C3_OverspendExact ==
    ValidRendered =>
        \A i \in 1..(Len(Days) - 1) :
            Days[i].spent > Days[i].allowance =>
                /\ Days[i + 1].allowance < calculations.dailyAllowance
                /\ FSub(calculations.dailyAllowance, Days[i + 1].allowance) =
                       FSub(Days[i].spent, Days[i].allowance)

\* C3, amended: after a day that spent more than its allowance, the day's remaining is
\* negative and the next day's allowance is the rounded sum of the base daily share and
\* that remaining, so it is not above the base daily share.
C3_OverspendPropagates ==
    ValidRendered =>
        \A i \in 1..(Len(Days) - 1) :
            Days[i].spent > Days[i].allowance =>
                /\ Days[i].remaining < 0
                /\ Days[i + 1].allowance =
                       FAdd(calculations.dailyAllowance, Days[i].remaining)
                /\ Days[i + 1].allowance <= calculations.dailyAllowance

\* A day overspends by so little that the rounded sum is the base daily share itself.
C3_Witness ==
    /\ ValidRendered
    /\ \E i \in 1..(Len(Days) - 1) :
          /\ Days[i].spent > Days[i].allowance
          /\ Days[i].remaining < 0
          /\ Days[i + 1].allowance = calculations.dailyAllowance

\* C4: in the valid and in the invalid ledger, available is the total amount minus the
\* total savings when that is positive and 0 otherwise, so it is never negative.
C4_AvailableClamped ==
    Rendered =>
        LET difference == FSub(OrZero(parseFloat(state.totalAmount)), totalSavings(state))
        IN  /\ calculations.available >= 0
            /\ calculations.available = (IF difference > 0 THEN difference ELSE 0)

\* The savings of several goals exceed the total amount, in a ledger of an invalid range.
C4_Witness ==
    /\ InvalidRendered
    /\ Len(state.savingsGoals) >= 2
    /\ OrZero(parseFloat(state.totalAmount)) > 0
    /\ totalSavings(state) > OrZero(parseFloat(state.totalAmount))
    /\ calculations.available = 0

NonNegative(text) ==
    IF parseFloat(text) = NaN \/ parseFloat(text) < 0 THEN 0 ELSE parseFloat(text)

RECURSIVE SumNonNegative(_, _)
SumNonNegative(goals, n) ==
    IF n = 0 THEN 0 ELSE FAdd(SumNonNegative(goals, n - 1), NonNegative(goals[n].amount))

\* C5: a negative or non-numeric total amount counts as 0, and a negative or non-numeric
\* goal amount adds 0 to the total savings, each goal on its own, so that available is
\* never above the total amount.
C5_NegativeAmountsCountZero ==
    Rendered =>
        /\ calculations.available =
               MathMax(0, FSub(NonNegative(state.totalAmount),
                               SumNonNegative(state.savingsGoals, Len(state.savingsGoals))))
        /\ calculations.available <= NonNegative(state.totalAmount)

WellFormedDate(text) ==
    /\ Len(text) = 3
    /\ text[2] \in 1..12
    /\ text[3] \in 1..DaysInMonth[text[2]]

\* Of two well-formed texts of the same year, the first is not the later day.
NotAfter(a, b) == a[2] < b[2] \/ (a[2] = b[2] /\ a[3] <= b[3])

RangeIsValid ==
    /\ WellFormedDate(state.startDate)
    /\ WellFormedDate(state.endDate)
    /\ NotAfter(state.startDate, state.endDate)

\* C6: the range is valid exactly when both date texts are calendar dates and the start is
\* not after the end; a range of one day is valid and counts 1 day; the ledger of an
\* invalid range has isValidRange false, no days, daysCount 0, dailyAllowance 0 and the
\* available computed from the amounts.
C6_RangeValidity ==
    Rendered =>
        /\ calculations.isValidRange = RangeIsValid
        /\ (RangeIsValid /\ state.startDate = state.endDate) => calculations.daysCount = 1
        /\ ~RangeIsValid =>
              /\ calculations.days = <<>>
              /\ calculations.daysCount = 0
              /\ calculations.dailyAllowance = 0
              /\ calculations.available = available(state)

\* The end is a calendar day before the start, and there is money available.
C6_Witness ==
    /\ InvalidRendered
    /\ WellFormedDate(state.startDate)
    /\ WellFormedDate(state.endDate)
    /\ ~NotAfter(state.startDate, state.endDate)
    /\ calculations.available > 0
    /\ calculations.dailyAllowance = 0

\* C7: the ledger of an invalid range has every aggregate of a valid one, at its default:
\* totalSpent 0, spentPercentage 0, spentUpToToday 0 and totalRemaining equal to available.
C7_InvalidLedgerComplete ==
    InvalidRendered =>
        /\ {"totalSpent", "spentPercentage", "spentUpToToday", "totalRemaining"}
               \subseteq DOMAIN calculations
        /\ calculations.totalSpent = 0
        /\ calculations.spentPercentage = 0
        /\ calculations.spentUpToToday = 0
        /\ calculations.totalRemaining = calculations.available

\* The calendar day after the day of a well-formed text.
DayAfter(text) ==
    IF text[3] < DaysInMonth[text[2]] THEN <<text[1], text[2], text[3] + 1>>
    ELSE IF text[2] < 12 THEN <<text[1], text[2] + 1, 1>>
    ELSE <<text[1] + 1, 1, 1>>

\* C8: in a valid range the days are the consecutive calendar days from the start to the
\* end, in ascending order, each once, and daysCount is their number.
C8_ConsecutiveDays ==
    ValidRendered =>
        /\ Len(Days) = calculations.daysCount
        /\ Len(Days) >= 1
        /\ Days[1].dateKey = state.startDate
        /\ Days[Len(Days)].dateKey = state.endDate
        /\ \A i \in 1..(Len(Days) - 1) :
              /\ Days[i + 1].dateKey = DayAfter(Days[i].dateKey)
              /\ Days[i + 1].date = Days[i].date + 1
        /\ \A i \in 1..Len(Days) : parseISO(Days[i].dateKey) = Days[i].date

\* A range of all the modelled days, which cross the end of a month.
C8_Witness ==
    /\ ValidRendered
    /\ Len(Days) = NumDays
    /\ Days[1].dateKey[2] # Days[Len(Days)].dateKey[2]

RECURSIVE SpentFromLeft(_, _)
SpentFromLeft(days, n) ==
    IF n = 0 THEN 0 ELSE FAdd(SpentFromLeft(days, n - 1), days[n].spent)

\* C9: in a valid range totalSpent is the sum of the days' spent and totalRemaining is
\* available minus totalSpent, possibly negative.
C9_Totals ==
    ValidRendered =>
        /\ calculations.totalSpent = SpentFromLeft(Days, Len(Days))
        /\ calculations.totalRemaining =
               FSub(calculations.available, calculations.totalSpent)

\* More was spent than was available.
C9_Witness ==
    /\ ValidRendered
    /\ Len(Days) >= 2
    /\ calculations.available > 0
    /\ calculations.totalSpent > calculations.available
    /\ calculations.totalRemaining < 0

\* C10: spentPercentage is the smaller of 100 and totalSpent / available * 100 when
\* available is positive and 0 otherwise, so it is never above 100; savings that reach the
\* total amount (a total amount of 0 among them) give available 0, dailyAllowance 0 and
\* spentPercentage 0.
C10_SpentPercentage ==
    Rendered =>
        /\ calculations.spentPercentage =
               (IF calculations.available > 0
                THEN MathMin(Num(100),
                             FMul(FDiv(calculations.totalSpent, calculations.available),
                                  Num(100)))
                ELSE 0)
        /\ calculations.spentPercentage <= Num(100)
        /\ calculations.spentPercentage # NaN
        /\ totalSavings(state) >= OrZero(parseFloat(state.totalAmount)) =>
              /\ calculations.available = 0
              /\ calculations.dailyAllowance = 0
              /\ calculations.spentPercentage = 0

\* The ratio is above 100 and the percentage is 100.
C10_Witness ==
    /\ ValidRendered
    /\ calculations.available > 0
    /\ FMul(FDiv(calculations.totalSpent, calculations.available), Num(100)) > Num(100)
    /\ calculations.spentPercentage = Num(100)

\* The entries of days whose calendar day is not after the day of now, in their order.
EntriesUpTo(days, now) == SelectSeq(days, LAMBDA d : NotAfter(d.dateKey, formatISO(now)))

\* C11: in a valid range spentUpToToday is the sum of spent over exactly the entries whose
\* calendar day is today or earlier; it is totalSpent when the end is not after today and
\* 0 when the start is after today.
C11_SpentUpToToday ==
    ValidRendered =>
        LET upTo == EntriesUpTo(Days, today)
        IN  /\ calculations.spentUpToToday = SpentFromLeft(upTo, Len(upTo))
            /\ NotAfter(state.endDate, formatISO(today)) =>
                   calculations.spentUpToToday = calculations.totalSpent
            /\ ~NotAfter(state.startDate, formatISO(today)) =>
                   calculations.spentUpToToday = 0

\* Today is inside the range: money was spent before today, today and after today.
C11_Witness ==
    /\ ValidRendered
    /\ \E i \in 2..(Len(Days) - 1) :
          /\ Days[i].date = today
          /\ Days[i].spent > 0
          /\ Days[i - 1].spent > 0
          /\ Days[i + 1].spent > 0
          /\ calculations.spentUpToToday = FAdd(SpentFromLeft(Days, i - 1), Days[i].spent)
          /\ calculations.spentUpToToday < calculations.totalSpent

\* Scenario B: a total amount of 1000, one goal of 200, a range of two days, 300 entered
\* for the first day and nothing for the second.
ScenarioB ==
    /\ state.totalAmount = "1000"
    /\ Len(state.savingsGoals) = 1
    /\ state.savingsGoals[1].amount = "200"
    /\ WellFormedDate(state.startDate)
    /\ state.endDate = DayAfter(state.startDate)
    /\ ~NoEntry(state.startDate)
    /\ state.expenses[state.startDate] = "300"
    /\ NoEntry(state.endDate)

\* C12: Scenario B gives available 800 and a base daily share of 400; day 1 has allowance
\* 400, spent 300, remaining 100; day 2 has allowance 500, spent 500, remaining 0.
C12_ScenarioB ==
    (Rendered /\ ScenarioB) =>
        /\ calculations.isValidRange
        /\ calculations.available = Num(800)
        /\ calculations.dailyAllowance = Num(400)
        /\ Len(Days) = 2
        /\ Days[1].allowance = Num(400)
        /\ Days[1].spent = Num(300)
        /\ Days[1].remaining = Num(100)
        /\ Days[2].allowance = Num(500)
        /\ Days[2].spent = Num(500)
        /\ Days[2].remaining = 0

\* Scenario B has been rendered, in a range that crosses the end of the month.
C12_Witness ==
    /\ Rendered
    /\ ScenarioB
    /\ state.startDate[2] # state.endDate[2]
    /\ calculations.totalSpent = Num(800)

NothingEntered == \A k \in DOMAIN state.expenses : state.expenses[k] = ""

\* The sum of n amounts x, added up from the left as the program adds them.
RECURSIVE SumOfEqual(_, _)
SumOfEqual(x, n) == IF n = 0 THEN 0 ELSE FAdd(SumOfEqual(x, n - 1), x)

\* C13, as claimed: with nothing entered on a valid range every day has allowance equal to
\* the base daily share, spent equal to the allowance and remaining 0, totalSpent is
\* available, totalRemaining is 0, and spentPercentage is 100 when available is positive.
C13_NoExpensesExact ==
    (ValidRendered /\ NothingEntered) =>
        /\ \A i \in 1..Len(Days) :
              /\ Days[i].allowance = calculations.dailyAllowance
              /\ Days[i].spent = Days[i].allowance
              /\ Days[i].remaining = 0
        /\ calculations.totalSpent = calculations.available
        /\ calculations.totalRemaining = 0
        /\ calculations.available > 0 => calculations.spentPercentage = Num(100)

ScenarioA ==
    /\ state.totalAmount = "3100"
    /\ totalSavings(state) = 0
    /\ state.startDate = <<2024, 1, 1>>
    /\ state.endDate = <<2024, 1, 31>>

\* C13, amended: with nothing entered on a valid range every day has allowance equal to
\* the base daily share, spent equal to the allowance and remaining 0; totalSpent is the
\* rounded sum of daysCount base daily shares, totalRemaining is available minus that sum
\* and spentPercentage the capped ratio of the two, which are available, 0 and 100 in
\* Scenario A, whose base daily share is 100.
C13_NoExpenses ==
    (ValidRendered /\ NothingEntered) =>
        /\ \A i \in 1..Len(Days) :
              /\ Days[i].allowance = calculations.dailyAllowance
              /\ Days[i].spent = Days[i].allowance
              /\ Days[i].remaining = 0
        /\ calculations.totalSpent =
               SumOfEqual(calculations.dailyAllowance, calculations.daysCount)
        /\ calculations.totalRemaining =
               FSub(calculations.available, calculations.totalSpent)
        /\ calculations.available > 0 =>
               calculations.spentPercentage =
                   MathMin(Num(100),
                           FMul(FDiv(calculations.totalSpent, calculations.available),
                                Num(100)))
        /\ ScenarioA =>
               /\ calculations.daysCount = 31
               /\ calculations.dailyAllowance = Num(100)
               /\ calculations.totalSpent = calculations.available
               /\ calculations.totalRemaining = 0
               /\ calculations.spentPercentage = Num(100)

\* Scenario A has been rendered.
C13_Witness ==
    /\ ValidRendered
    /\ NothingEntered
    /\ ScenarioA
    /\ Len(Days) = 31
    /\ Days[31].spent = Num(100)

IsNumber(x) == x \in Int /\ x # NaN

WellFormedDay(day) ==
    /\ isValid(day.date)
    /\ WellFormedDate(day.dateKey)
    /\ IsNumber(day.allowance)
    /\ IsNumber(day.spent)
    /\ IsNumber(day.remaining)

\* A ledger of the one or of the other shape that the computation returns.
WellFormedLedger(ledger) ==
    /\ "raised" \notin DOMAIN ledger
    /\ ledger.isValidRange \in BOOLEAN
    /\ ledger.daysCount \in Nat
    /\ Len(ledger.days) = ledger.daysCount
    /\ \A i \in 1..Len(ledger.days) : WellFormedDay(ledger.days[i])
    /\ IsNumber(ledger.available)
    /\ IsNumber(ledger.dailyAllowance)
    /\ IsNumber(ledger.totalSpent)
    /\ IsNumber(ledger.totalRemaining)
    /\ IsNumber(ledger.spentPercentage)
    /\ IF ledger.isValidRange
       THEN ledger.daysCount >= 1 /\ IsNumber(ledger.spentUpToToday)
       ELSE ledger.daysCount = 0

\* C15: the computation never raises: for empty, unparseable and negative amounts, for
\* malformed and reversed dates and for any expense texts, also on days outside the range,
\* it returns a well-formed ledger, whose isValidRange is true or false.
C15_NeverRaises == Rendered => WellFormedLedger(calculations)

\* The ledger of a range that ends before it starts, with an unparseable text entered
\* for a day and no total amount.
C15_Witness ==
    /\ InvalidRendered
    /\ WellFormedLedger(calculations)
    /\ state.totalAmount = ""
    /\ WellFormedDate(state.startDate)
    /\ WellFormedDate(state.endDate)
    /\ ~NotAfter(state.startDate, state.endDate)
    /\ \E k \in DOMAIN state.expenses : state.expenses[k] = "abc"

\* C20: whenever the range is invalid (the end before the start, or a date that is no
\* calendar date) the ledger view is not rendered and the empty state shows a guidance
\* text in its place; the ledger view is rendered only when the range is valid and the
\* parsed total amount is above 0.
C20_ViewGate ==
    Rendered =>
        /\ LedgerViewShown # EmptyStateShown
        /\ ~RangeIsValid =>
              /\ ~LedgerViewShown
              /\ EmptyStateShown
              /\ GuidanceText \in {SelectValidRange, EnterAmountAndRange}
        /\ LedgerViewShown =>
              /\ RangeIsValid
              /\ parseFloat(state.totalAmount) # NaN
              /\ parseFloat(state.totalAmount) > 0

\* A total amount above 0 with an end before the start: the empty state asks for a valid
\* range.
C20_Witness ==
    /\ InvalidRendered
    /\ parseFloat(state.totalAmount) # NaN
    /\ parseFloat(state.totalAmount) > 0
    /\ WellFormedDate(state.startDate)
    /\ WellFormedDate(state.endDate)
    /\ ~NotAfter(state.startDate, state.endDate)
    /\ EmptyStateShown
    /\ ~LedgerViewShown
    /\ GuidanceText = SelectValidRange

LastDay == Days[Len(Days)]

Magnitude(x) == IF x < 0 THEN 0 - x ELSE x

\* The sum of the magnitudes of the spent of the first n days, not rounded.
RECURSIVE SumOfMagnitudes(_, _)
SumOfMagnitudes(days, n) ==
    IF n = 0 THEN 0 ELSE SumOfMagnitudes(days, n - 1) + Magnitude(days[n].spent)

\* The largest magnitude among the amounts that the ledger adds and subtracts.
RECURSIVE LargestAmount(_, _)
LargestAmount(days, n) ==
    IF n = 0 THEN calculations.available
    ELSE LET rest == LargestAmount(days, n - 1)
             here == IF Magnitude(days[n].allowance) >= Magnitude(days[n].remaining)
                     THEN Magnitude(days[n].allowance)
                     ELSE Magnitude(days[n].remaining)
         IN  IF here >= rest THEN here ELSE rest

\* The rounding that the ledger of n days accumulates: each of its 4n + 1 operations is
\* off by at most half the spacing of the numbers at the largest magnitude that occurs.
RoundingSlack ==
    LET sum == SumOfMagnitudes(Days, Len(Days))
        amount == LargestAmount(Days, Len(Days))
        largest == IF sum >= amount THEN sum ELSE amount
    IN  (2 * Len(Days) + 1) * (1 + (2 * largest) \div Pow2(PrecBits))

\* C24 as stated: in a valid range totalSpent plus the remaining of the last day is
\* available, totalRemaining is the remaining of the last day, and totalRemaining is 0
\* when the last day has no entry.
C24_TelescopingExact ==
    ValidRendered =>
        /\ FAdd(calculations.totalSpent, LastDay.remaining) = calculations.available
        /\ calculations.totalRemaining = LastDay.remaining
        /\ NoEntry(LastDay.dateKey) => calculations.totalRemaining = 0

\* C24, amended: in a valid range the remaining of the last day is 0 when that day has
\* no entry, and totalRemaining, which is available minus totalSpent, differs from the
\* remaining of the last day by no more than the accumulated rounding; the two are equal
\* in Scenario A, where no step rounds.
C24_Telescoping ==
    ValidRendered =>
        /\ NoEntry(LastDay.dateKey) => LastDay.remaining = 0
        /\ calculations.totalRemaining =
               FSub(calculations.available, calculations.totalSpent)
        /\ Magnitude(calculations.totalRemaining - LastDay.remaining) <= RoundingSlack
        /\ ScenarioA =>
               /\ calculations.totalRemaining = LastDay.remaining
               /\ FAdd(calculations.totalSpent, LastDay.remaining) = calculations.available

\* An earlier day is overspent and the last day has no entry: its remaining is 0.
C24_Witness ==
    /\ ValidRendered
    /\ Len(Days) >= 2
    /\ NoEntry(LastDay.dateKey)
    /\ \E i \in 1..(Len(Days) - 1) : ~NoEntry(Days[i].dateKey) /\ Days[i].remaining < 0
    /\ LastDay.remaining = 0

\* Every entry that counts as input reads as a number that is not negative.
EntriesNonNegative ==
    \A k \in DOMAIN state.expenses :
        state.expenses[k] # "" =>
            /\ parseFloat(state.expenses[k]) # NaN
            /\ parseFloat(state.expenses[k]) >= 0

\* C25: in a valid range whose entries all read as numbers that are not negative,
\* totalSpent is not negative and spentPercentage lies between 0 and 100, whatever the
\* days without an entry take over from the days before them.
C25_SpentWithinBounds ==
    (ValidRendered /\ EntriesNonNegative) =>
        /\ calculations.totalSpent # NaN
        /\ calculations.totalSpent >= 0
        /\ calculations.spentPercentage # NaN
        /\ calculations.spentPercentage >= 0
        /\ calculations.spentPercentage <= Num(100)

\* A day without an entry takes over a deficit, so that its spent is negative, and more
\* is spent in total than was available.
C25_Witness ==
    /\ ValidRendered
    /\ EntriesNonNegative
    /\ \E i \in 1..Len(Days) : NoEntry(Days[i].dateKey) /\ Days[i].spent < 0
    /\ calculations.available > 0
    /\ calculations.totalSpent > calculations.available
    /\ calculations.spentPercentage = Num(100)

----------------------------------------------------------------------------
(* Properties of the planner, checked under Spec *)

C16_AtLeastOneGoal ==
    /\ Len(state.savingsGoals) >= 1
    /\ toasted = "Cannot remove" => Len(state.savingsGoals) = 1

\* The stored content is the text of an object with the five fields of st and their values.
StoresState(content, st) ==
    /\ DOMAIN content = {"json"}
    /\ DOMAIN content.json =
           {"totalAmount", "startDate", "endDate", "expenses", "savingsGoals"}
    /\ content.json.totalAmount = st.totalAmount
    /\ content.json.startDate = st.startDate
    /\ content.json.endDate = st.endDate
    /\ content.json.expenses = st.expenses
    /\ DOMAIN content.json.savingsGoals = {"array"}
    /\ content.json.savingsGoals.array = st.savingsGoals

\* C17: every change of the state schedules a write of the state under STORAGE_KEY, the
\* write that runs stores the serialization of the whole current state, and a scheduled
\* write does run; so whenever no write is pending the store holds the serialization of
\* the state in memory.
C17_Persisted ==
    /\ [](Idle => StoresState(stored, state))
    /\ [][/\ state' # state => (persistPending' /\ stored' = stored)
          /\ stored' # stored => (persistPending /\ ~persistPending' /\ state' = state)]_vars
    /\ (persistPending ~> Idle)

\* The write after an entered expense has run: the store holds two goals and the expense.
C17_Witness ==
    /\ Idle
    /\ StoresState(stored, state)
    /\ Len(state.savingsGoals) = 2
    /\ \E k \in DOMAIN state.expenses : state.expenses[k] = "80"

\* The key is a day of the range of st.
InRange(st, k) ==
    /\ WellFormedDate(st.startDate)
    /\ WellFormedDate(st.endDate)
    /\ NotAfter(st.startDate, k)
    /\ NotAfter(k, st.endDate)

\* The state without the entries of the days outside its range.
WithoutOutside(st) ==
    [st EXCEPT !.expenses = [k \in {key \in DOMAIN @ : InRange(st, key)} |-> @[k]]]

\* A step that changes the start or the end date.
RangeEdited == state'.startDate # state.startDate \/ state'.endDate # state.endDate

\* C27: the ledger in use is the ledger of the state without the entries outside the
\* range, and a change of the range leaves every entry, inside or outside, as it was; so
\* the ledger of a range that was narrowed and widened back is the one it had before.
C27_OutsideEntries ==
    /\ [](Rendered => /\ calculations = Ledger(WithoutOutside(state), today)
                      /\ calculations = Ledger(state, today))
    /\ [][RangeEdited => state'.expenses = state.expenses]_vars

\* The range has just been narrowed: the entry of the first day is outside the range of
\* the ledger, while the store holds the state of the wider range with that entry.
C27_Witness ==
    /\ ValidRendered
    /\ persistPending
    /\ hasInput(state, formatISO(FirstDay))
    /\ ~InRange(state, formatISO(FirstDay))
    /\ "json" \in DOMAIN stored
    /\ InRange(stored.json, formatISO(FirstDay))
    /\ hasInput(stored.json, formatISO(FirstDay))
    /\ \A i \in 1..Len(Days) : Days[i].dateKey # formatISO(FirstDay)

----------------------------------------------------------------------------
(* Properties of loading, checked under SpecLoad *)

\* The store holds nothing that can be read as an object: nothing, a text that is not
\* JSON, or null.
Unreadable == "json" \notin DOMAIN stored \/ IsNull(stored.json)

MissingField(field) == Unreadable \/ field \notin DOMAIN stored.json

MissingText(field, emptyText) == MissingField(field) \/ stored.json[field] = emptyText

\* The stored savingsGoals is missing, null, not a list, an empty list, or lists a null.
GoalsUnusable ==
    \/ MissingField("savingsGoals")
    \/ IsNull(stored.json.savingsGoals)
    \/ "array" \notin DOMAIN stored.json.savingsGoals
    \/ Len(stored.json.savingsGoals.array) = 0
    \/ \E i \in 1..Len(stored.json.savingsGoals.array) :
          IsNull(stored.json.savingsGoals.array[i])

IsPlaceholderList(goals) ==
    /\ Len(goals) = 1
    /\ DOMAIN goals[1] = {"id", "name", "amount", "category"}
    /\ goals[1].id \in GoalIds
    /\ goals[1].name = "General Savings"
    /\ goals[1].amount = "0"
    /\ goals[1].category = "other"

\* A goal has the four fields of SavingsGoal, its category not empty.
WellFormedGoal(goal) ==
    /\ DOMAIN goal = {"id", "name", "amount", "category"}
    /\ goal.category # ""

\* A state has the five fields of PlannerState and at least one goal, each well-formed.
WellFormedState(st) ==
    /\ DOMAIN st = FieldNames
    /\ Len(st.savingsGoals) >= 1
    /\ \A i \in 1..Len(st.savingsGoals) : WellFormedGoal(st.savingsGoals[i])

FirstOfMonth(now) == <<2024, formatISO(now)[2], 1>>
LastOfMonth(now) == <<2024, formatISO(now)[2], DaysInMonth[formatISO(now)[2]]>>

\* C18: whatever the store holds (nothing, a text that is not JSON, null, an object with
\* missing or empty fields or with a missing, empty or malformed savingsGoals), no
\* exception escapes and the state is well-formed, every missing piece at its default: total
\* amount "", the first and the last day of the current month, no expenses, the single
\* placeholder goal, category "other".
C18_LoadTolerant ==
    /\ Rendered => "raised" \notin DOMAIN calculations
    /\ WellFormedState(state)
    /\ MissingText("totalAmount", "") => state.totalAmount = ""
    /\ MissingText("startDate", <<>>) => state.startDate = FirstOfMonth(today)
    /\ MissingText("endDate", <<>>) => state.endDate = LastOfMonth(today)
    /\ MissingField("expenses") => state.expenses = <<>>
    /\ GoalsUnusable => IsPlaceholderList(state.savingsGoals)
    /\ ~GoalsUnusable =>
          \A i \in 1..Len(stored.json.savingsGoals.array) :
             LET goal == stored.json.savingsGoals.array[i]
             IN  ("category" \notin DOMAIN goal \/ goal.category = "") =>
                     state.savingsGoals[i].category = "other"

----------------------------------------------------------------------------
(* Properties of the Copy button, checked under FairSpecCopy *)

\* A step in which a clipboard write settles as failed.
WriteFails == Len(inFlight') < Len(inFlight) /\ toasted' = "Copy failed"

\* A step in which a clipboard write settles as done.
WriteSucceeds ==
    /\ Len(inFlight') < Len(inFlight)
    /\ toasted' = "Copied!"
    /\ clipboard' = Head(inFlight)

\* C19: a failed clipboard write is reported by a notification and changes nothing else:
\* not the state, the ledger, the store or the copied flag; the copied flag becomes true
\* only in the step of a successful write, and it is reset to false later.
C19_CopyFailure ==
    /\ [][/\ Len(inFlight') < Len(inFlight) => (WriteFails \/ WriteSucceeds)
          /\ WriteFails =>
                /\ state' = state
                /\ calculations' = calculations
                /\ stored' = stored
                /\ copied' = copied
                /\ clipboard' = clipboard
                /\ timers' = timers
          /\ (~copied /\ copied') => WriteSucceeds]_vars
    /\ [](copied => timers > 0)
    /\ (copied ~> ~copied)

\* A write has failed after an earlier one succeeded, and the flag of the earlier one
\* has been reset since.
C19_Witness ==
    /\ toasted = "Copy failed"
    /\ Len(clipboard) > 0
    /\ ~copied
    /\ timers = 0
    /\ inFlight = <<>>

\* A step in which the Copy button hands a text to the clipboard, and that text.
CopyClicked == Len(inFlight') > Len(inFlight)

TextHandedOver == inFlight'[Len(inFlight')]

\* The line carries the day name, the formatted date and the allowance of the day; when
\* it has the Spent and Remaining segments, they are those of the day.
LineCarries(line, day) ==
    /\ line.dayName = dayName(day.date)
    /\ line.formattedDate = formattedDate(day.date)
    /\ line.allowance = formatCurrency(day.allowance)
    /\ Len(line.detail) > 0 =>
          line.detail = <<formatCurrency(day.spent), formatCurrency(day.remaining)>>

\* C22 as stated: the copied text has one line per day of the ledger, in the order of the
\* ledger; each line carries the day name, the formatted date and the allowance; the Spent
\* and Remaining segments are left out when spent is 0 and present for every other spent.
C22_ExportUnlessZero ==
    [][CopyClicked =>
         /\ Len(TextHandedOver) = Len(Days)
         /\ \A i \in 1..Len(Days) :
               /\ LineCarries(TextHandedOver[i], Days[i])
               /\ Len(TextHandedOver[i].detail) = 0 <=> Days[i].spent = 0]_vars

\* C22: the copied text has one line per day of the ledger, in the order of the ledger;
\* each line carries the day name, the formatted date and the allowance; the Spent and
\* Remaining segments are present when spent is above 0 and left out when spent is 0 or
\* below 0.
C22_Export ==
    [][CopyClicked =>
         /\ Len(TextHandedOver) = Len(Days)
         /\ \A i \in 1..Len(Days) :
               /\ LineCarries(TextHandedOver[i], Days[i])
               /\ Len(TextHandedOver[i].detail) > 0 <=> Days[i].spent > 0]_vars

\* The text of a ledger with a day of positive and a day of negative spent has been
\* handed over: the line of the first has the segments, the line of the second has not.
C22_Witness ==
    /\ ValidRendered
    /\ Len(inFlight) > 0
    /\ Len(inFlight[1]) = Len(Days)
    /\ \E i, j \in 1..Len(Days) :
          /\ Days[i].spent > 0
          /\ Len(inFlight[1][i].detail) = 2
          /\ Days[j].spent < 0
          /\ Len(inFlight[1][j].detail) = 0

----------------------------------------------------------------------------
(* Properties of the planner left open, checked under SpecClock *)

\* C21: after every commit (the first render or an edit) the ledger in use is the ledger
\* that the calculation gives, evaluated now, for the state that was committed.
C21_LedgerIsDerived == persistPending => calculations = Ledger(state, today)

\* The entry of a key: whether the expenses have it, and its text.
EntryOf(st, k) == IF k \in DOMAIN st.expenses THEN <<TRUE, st.expenses[k]>> ELSE <<FALSE, "">>

\* The keys whose entry a step changes.
EditedKeys ==
    {k \in DOMAIN state.expenses \cup DOMAIN state'.expenses :
        EntryOf(state, k) # EntryOf(state', k)}

\* A step that sets, edits or clears the entry of key k and nothing else of the state.
EntryEdited(k) ==
    /\ EditedKeys = {k}
    /\ state'.totalAmount = state.totalAmount
    /\ state'.startDate = state.startDate
    /\ state'.endDate = state.endDate
    /\ state'.savingsGoals = state.savingsGoals

Before(dateKey, k) == NotAfter(dateKey, k) /\ dateKey # k

\* C26: a change of the entry of day k leaves daysCount, available and dailyAllowance as
\* they were, leaves allowance, spent and remaining of every day before k as they were,
\* and leaves the allowance of day k as it was.
C26_PrefixIndependence ==
    [][\A k \in ValidDateTexts :
          (ValidRendered /\ EntryEdited(k)) =>
              /\ calculations'.isValidRange
              /\ calculations'.daysCount = calculations.daysCount
              /\ calculations'.available = calculations.available
              /\ calculations'.dailyAllowance = calculations.dailyAllowance
              /\ Len(calculations'.days) = Len(Days)
              /\ \A i \in 1..Len(Days) :
                    /\ calculations'.days[i].dateKey = Days[i].dateKey
                    /\ NotAfter(Days[i].dateKey, k) =>
                          calculations'.days[i].allowance = Days[i].allowance
                    /\ Before(Days[i].dateKey, k) =>
                          /\ calculations'.days[i].spent = Days[i].spent
                          /\ calculations'.days[i].remaining = Days[i].remaining]_vars

\* The entry of the second day has just been set, after the entry of the first day: the
\* store still holds the state without it.
C26_Witness ==
    /\ ValidRendered
    /\ persistPending
    /\ hasInput(state, formatISO(FirstDay))
    /\ hasInput(state, formatISO(FirstDay + 1))
    /\ "json" \in DOMAIN stored
    /\ hasInput(stored.json, formatISO(FirstDay))
    /\ ~hasInput(stored.json, formatISO(FirstDay + 1))
    /\ Days[1].remaining < 0
    /\ Days[2].spent = parseFloat(state.expenses[formatISO(FirstDay + 1)])

----------------------------------------------------------------------------
(* Properties of the edits, checked under SpecEdits *)

\* The step leaves every field of the state other than the named one as it was.
OnlyFieldChanged(field) ==
    /\ DOMAIN state' = DOMAIN state
    /\ \A f \in DOMAIN state \ {field} : state'[f] = state[f]

C29_AddGoalIsNeutral ==
    [][\A id \in GoalIds :
          addSavingsGoal(id) =>
              LET goals == state.savingsGoals
                  added == state'.savingsGoals
              IN  /\ OnlyFieldChanged("savingsGoals")
                  /\ Len(added) = Len(goals) + 1
                  /\ \A i \in 1..Len(goals) : added[i] = goals[i]
                  /\ added[Len(added)].id = id
                  /\ added[Len(added)].amount = "0"
                  /\ added[Len(added)].category = "other"
                  /\ totalSavings(state') = totalSavings(state)
                  /\ available(state') = available(state)
                  /\ calculations' = calculations
                  /\ Ledger(state', today) = Ledger(state, today)]_vars

\* A goal has just been added to a plan with savings, after the goal that the store holds.
C29_Witness ==
    /\ ValidRendered
    /\ persistPending
    /\ "json" \in DOMAIN stored
    /\ Len(state.savingsGoals) = Len(stored.json.savingsGoals.array) + 1
    /\ \A i \in 1..Len(stored.json.savingsGoals.array) :
          state.savingsGoals[i] = stored.json.savingsGoals.array[i]
    /\ state.savingsGoals[Len(state.savingsGoals)].amount = "0"
    /\ totalSavings(state) > 0
    /\ calculations.available = available(state)

----------------------------------------------------------------------------
(* Properties of the month-based variant, checked under SpecMonth *)

\* C23: whatever the store holds, the state of the month-based variant has its three
\* fields, and the calculation of the first render does not raise.
C23_MonthLoadTolerant ==
    /\ ~IsNull(state)
    /\ MonthFieldNames \subseteq DOMAIN state
    /\ calculations # MonthRaised

----------------------------------------------------------------------------
(* Properties of the two variants side by side, checked under SpecRefine *)

\* The state of the range-only variant with the amount and the dates of st and the
\* desired saving text.
RangeStateOf(st, text) ==
    [totalAmount |-> st.totalAmount, startDate |-> st.startDate, endDate |-> st.endDate,
     desiredSaving |-> text]

\* The state of the final variant with the amount and the dates of st, the goals, and no
\* expense entry.
FinalStateOf(st, goals) ==
    [totalAmount |-> st.totalAmount, startDate |-> st.startDate, endDate |-> st.endDate,
     expenses |-> <<>>, savingsGoals |-> goals]

\* The ledger of the final variant and the result of the range-only variant agree.
Agree(final, range) ==
    IF final = Raised \/ range = Raised
    THEN final = Raised /\ range = Raised
    ELSE /\ final.isValidRange = range.isValidRange
         /\ final.daysCount = range.daysCount
         /\ final.available = range.available
         /\ final.dailyAllowance = range.dailyAllowance
         /\ Len(final.days) = Len(range.days)
         /\ \A i \in 1..Len(final.days) :
               /\ final.days[i].date = range.days[i].date
               /\ final.days[i].allowance = range.days[i].amount

\* C30: for the same total amount and dates, with total savings equal to the desired
\* saving and no expense entry, the final variant and the range-only variant give the same
\* isValidRange, daysCount, available and dailyAllowance, the same days, and to every day
\* an allowance equal to its amount in the range-only variant; the result of an invalid
\* range has no days in both.
C30_Refines ==
    Rendered =>
        IF RangeOnly(state)
        THEN \A goals \in GoalLists :
                 LET final == FinalStateOf(state, goals)
                 IN  totalSavings(final) = OrZero(parseFloat(state.desiredSaving)) =>
                         Agree(Ledger(final, today), calculations)
        ELSE \A text \in GoalAmountTexts :
                 OrZero(parseFloat(text)) = totalSavings(state) =>
                     Agree(calculations, RangeLedger(RangeStateOf(state, text)))

\* The final variant has rendered a range of several days for two goals whose savings a
\* desired saving of the range-only variant equals.
C30_Witness ==
    /\ ValidRendered
    /\ ~RangeOnly(state)
    /\ Len(state.savingsGoals) >= 2
    /\ Len(Days) >= 2
    /\ calculations.available > 0
    /\ totalSavings(state) > 0
    /\ \E text \in GoalAmountTexts :
          /\ OrZero(parseFloat(text)) = totalSavings(state)
          /\ RangeLedger(RangeStateOf(state, text)).days[2].amount = Days[2].allowance

====
